---- MODULE Spec2Model ----
(***************************************************************************)
(* Model of the acquisition-and-extraction pipeline of sber-test-work:     *)
(* src/src/main.py (download_files, handle_files, generate_csv_report),    *)
(* src/src/downloaders.py (ContentDownloader.download),                    *)
(* src/src/handlers.py (ContentHandler.handle),                            *)
(* src/src/robotparser.py (can_fetch and the module-level _robots_cache)   *)
(* and src/schemas.py (URLMetadata).                                       *)
(*                                                                         *)
(* Spec          : one sequential run of __main__ over a list of records.  *)
(* SpecConc      : several callers inside can_fetch at the same time, each *)
(*                 at its own position between lookup, read, store, return.*)
(* SpecNormalize : clear_urls_of_garbage applied to one URL, and again.    *)
(* SpecClassify  : get_content_type applied to one URL and probe response, *)
(*                 and a second time.                                      *)
(* SpecFormats   : the run of Spec over xlsx and docx URLs.                *)
(* SpecTransfer  : one download() call on a fresh downloader, the body of  *)
(*                 the response told apart from its Content-Length.        *)
(***************************************************************************)
EXTENDS Naturals, Sequences, FiniteSets, TLC

VARIABLES
    urls,          \* list[URLMetadata] handed from stage to stage in __main__
    downloaders,   \* the two ContentDownloader objects built by download_files
    handlers,      \* the four ContentHandler objects built by handle_files
    robots_cache,  \* robotparser._robots_cache
    phase,         \* position of __main__: which stage is running
    idx,           \* position of the running stage's for-loop (1-based)
    trace,         \* per record: which calls were made for it and what they gave
    reads,         \* per origin: number of RobotFileParser.read() calls
    report,        \* the file generate_csv_report wrote and its rows, or NoReport
    threads,       \* SpecConc: the callers of can_fetch and their local state
    call           \* SpecNormalize, SpecClassify, SpecTransfer: one function applied to one
                   \* input, with its argument and result

vars == <<urls, downloaders, handlers, robots_cache, phase, idx, trace, reads,
          report, threads, call>>

pipelineVars == <<urls, downloaders, handlers, phase, idx, trace, report, call>>

-----------------------------------------------------------------------------
(* Bounds *)

MaxUrls == 2

MaxThreads == 2

Origins == {"http://a", "http://b"}

\* The input URLs (after normalisation): one without a path suffix and one
\* ending in .pdf, on different origins.  The same URL may occur several times
\* in the input, so several records can share an origin.
Urls == {[origin |-> "http://a", path |-> "/x", suffix |-> ""],
         [origin |-> "http://b", path |-> "/y", suffix |-> ".pdf"]}

-----------------------------------------------------------------------------
(* Values *)

\* Python's None in a string-typed field, and None / "" in url- and
\* path-typed fields.
None == "None"

NoneUrl == [origin |-> "None", path |-> "", suffix |-> ""]

EmptyUrl == [origin |-> "", path |-> "", suffix |-> ""]

NonePath == [folder |-> "None", stem |-> 0, ext |-> ""]

EmptyPath == [folder |-> "", stem |-> 0, ext |-> ""]

DOCUMENT_RAW_FOLDER == "raw_downloads/documents/"

PAGE_RAW_FOLDER == "raw_downloads/pages/"

DOCUMENT_PROCESSED_FOLDER == "processed_data/documents/"

PAGE_PROCESSED_FOLDER == "processed_data/pages/"

Statuses == {"success", "failed_download", "failed_processing", "skipped_robots"}

\* A record as URLMetadata's field defaults leave it; id is the record's
\* position (uuid4 values are pairwise different), source_url is the input.
URLMetadata(k, u) ==
    [id                     |-> k,
     source_url             |-> u,
     final_url              |-> NoneUrl,
     download_timestamp     |-> None,
     download_status        |-> "success",
     error_message          |-> None,
     content_type_detected  |-> None,
     raw_file_path          |-> NonePath,
     processed_file_path    |-> NonePath,
     file_size_bytes        |-> None,
     document_page_count    |-> 0,
     detected_language      |-> 0,
     metadata_author        |-> 0,
     metadata_creation_date |-> 0]

\* URLMetadata.__setattr__: assigning a truthy raw_file_path also stamps
\* download_timestamp.
SetRawFilePath(rec, p) ==
    IF p # NonePath /\ p # EmptyPath
    THEN [rec EXCEPT !.raw_file_path = p, !.download_timestamp = "now"]
    ELSE [rec EXCEPT !.raw_file_path = p]

-----------------------------------------------------------------------------
(* robotparser.can_fetch *)

\* What RobotFileParser.read() can do: return with a parsed policy that allows
\* or disallows the URL for the agent, raise URLError, or raise an exception
\* that is no URLError (a timeout or reset while reading the body, a body that
\* is not UTF-8).
ReadOutcomes == {"allow", "deny", "URLError", "OtherError"}

\* Values of _robots_cache per origin: no key, key -> None, key -> parser.
NoKey == "NoKey"

Parsers == {"allow", "deny"}

\* sitemap = scheme://netloc
Sitemap(u) == u.origin

\* _robots_cache.get(sitemap): None for a missing key and for a stored None.
CacheGet(cache, o) == IF cache[o] = NoKey THEN None ELSE cache[o]

\* `if not robot_parser:` a RobotFileParser object is truthy, None is not.
NeedsRead(rp) == rp = None

\* try: robot_parser.read() / except URLError: robot_parser = None
\* The local robot_parser after the try statement; an exception that is no
\* URLError leaves the function instead (Raises).
AfterRead(out) == IF out = "URLError" THEN None ELSE out

Raises(out) == out = "OtherError"

\* if robot_parser is None: return True / return robot_parser.can_fetch(...)
Decision(rp) == IF rp = None THEN TRUE ELSE rp = "allow"

\* One whole call of can_fetch(url, agent) run without interruption; out is
\* what read() does if it is called, read is what it did ("none": not called).
CanFetch(cache, u, out) ==
    LET o  == Sitemap(u)
        rp == CacheGet(cache, o)
    IN  IF ~NeedsRead(rp)
        THEN [raised |-> FALSE, ret |-> Decision(rp), cache |-> cache, read |-> "none"]
        ELSE IF Raises(out)
        THEN [raised |-> TRUE, ret |-> FALSE, cache |-> cache, read |-> out]
        ELSE [raised |-> FALSE, ret |-> Decision(AfterRead(out)),
              cache |-> [cache EXCEPT ![o] = AfterRead(out)], read |-> out]

-----------------------------------------------------------------------------
(* main.get_content_type *)

\* The HEAD probe: a RequestException, or a response whose Content-Type header
\* is absent (None) or names a media type (already without parameters).
HeaderTypes == {"text/html", "application/pdf", "application/octet-stream",
                "application/x-unknown"}

Probes == {"RequestException", None} \cup HeaderTypes

\* content_type.split(";")[0].strip().lower()
NormalizeHeader(h) ==
    CASE h = "Text/HTML; charset=UTF-8" -> "text/html"
      [] h = "application/pdf ;q=1"     -> "application/pdf"
      [] OTHER                          -> h

DocxType == "application/vnd.openxmlformats-officedocument.wordprocessingml.document"

XlsxType == "application/vnd.openxmlformats-officedocument.spreadsheetml.sheet"

\* mimetypes.guess_type(url)[0]: by the URL's suffix.
GuessType(u) ==
    CASE u.suffix = ".pdf"  -> "application/pdf"
      [] u.suffix = ".html" -> "text/html"
      [] u.suffix = ".docx" -> DocxType
      [] u.suffix = ".xlsx" -> XlsxType
      [] u.suffix = ".txt"  -> "text/plain"
      [] u.suffix = ".zip"  -> "application/zip"
      [] OTHER              -> None

\* mimetypes.guess_extension(type); it raises AttributeError on None.
GuessExtension(t) ==
    CASE t = "text/html"                -> ".html"
      [] t = "application/pdf"          -> ".pdf"
      [] t = "application/octet-stream" -> ".bin"
      [] t = DocxType                   -> ".docx"
      [] t = XlsxType                   -> ".xlsx"
      [] t = "text/plain"               -> ".txt"
      [] t = "application/zip"          -> ".zip"
      [] OTHER                          -> None

Unknown == [raised |-> FALSE, kind |-> "", ext |-> ""]

\* A classifier that keeps state between calls: once it has answered, it
\* answers unknown.
GetContentType_AnswersOnce(u, probe) ==
    IF call.fn = "get_content_type" /\ call.done THEN Unknown
    ELSE [raised |-> FALSE, kind |-> "document", ext |-> ".bin"]

GetContentType(u, probe) ==
    IF probe = "RequestException" THEN Unknown
    ELSE LET content_type == IF probe \in {None, ""} THEN GuessType(u)
                             ELSE NormalizeHeader(probe)
         IN  IF content_type = None
             THEN [raised |-> TRUE, kind |-> "", ext |-> ""]
             ELSE LET ext_type == GuessExtension(content_type)
                  IN  IF ext_type # None
                      THEN [raised |-> FALSE,
                            kind |-> IF ext_type = ".html" THEN "page" ELSE "document",
                            ext  |-> ext_type]
                      ELSE Unknown

-----------------------------------------------------------------------------
(* downloaders.ContentDownloader *)

\* ContentDownloader.__init__
NewDownloader(dest_folder) ==
    [dest_folder      |-> dest_folder,
     url              |-> EmptyUrl,
     download_status  |-> "success",
     error_message    |-> "",
     file_path        |-> EmptyPath,
     file_size_bytes  |-> "0"]

\* What _mkdir (Path.mkdir(parents=True, exist_ok=True)) can do at the start
\* of download() and of handle(): return, or raise OSError (no permission, a
\* file in the way).
Mkdirs == {"ok", "OSError"}

\* What requests.get / raise_for_status / the write of the raw file can do in
\* _download: fail with an exception, or succeed with the effective URL of the
\* response and its Content-Length header (absent: None).
Responses(u) ==
    {[ok |-> FALSE, url |-> EmptyUrl, content_length |-> None],
     [ok |-> TRUE,  url |-> u, content_length |-> "1024"],
     [ok |-> TRUE,  url |-> [u EXCEPT !.path = "/moved"], content_length |-> None]}

\* RequestsDocumentDownloader._download / RequestsPageDownloader._download
\* on a response that raises nothing.
TransferOk(d, resp) ==
    [d EXCEPT !.url = resp.url,
              !.file_size_bytes = IF resp.content_length = None THEN "0"
                                  ELSE resp.content_length]

\* A status literal that is none of the four statuses.
TransferFailed_BadLiteral(d) ==
    [d EXCEPT !.download_status = "failed",
              !.error_message = "download error"]

\* except Exception as e: in download()
TransferFailed(d) ==
    [d EXCEPT !.download_status = "failed_download",
              !.error_message = "download error"]

\* the robots branch of download(): status after `if not can_fetch(...)`
AfterRobots(d, allowed) ==
    IF ~allowed THEN [d EXCEPT !.download_status = "skipped_robots"] ELSE d

\* ContentDownloader.download(url, file_name=...): the downloader after the
\* call, whether the call raised, and what it did on the way.
Download(d, cache, u, file_name, mk, out, resp) ==
    IF mk # "ok"
    THEN [raised |-> TRUE, d |-> d,
          cache |-> cache, read |-> "none", can_fetch |-> "none", transfer |-> "none"]
    ELSE IF file_name.stem = 0 /\ file_name.ext = ""
    THEN [raised |-> TRUE, d |-> [d EXCEPT !.download_status = "failed_download"],
          cache |-> cache, read |-> "none", can_fetch |-> "none", transfer |-> "none"]
    ELSE
    LET cf == CanFetch(cache, u, out)
    IN  IF cf.raised
        THEN [raised |-> TRUE, d |-> d, cache |-> cf.cache, read |-> cf.read,
              can_fetch |-> "raised", transfer |-> "none"]
        ELSE
        LET d1 == AfterRobots(d, cf.ret)
            file_path == [folder |-> d.dest_folder, stem |-> file_name.stem,
                          ext |-> file_name.ext]
            d2 == IF resp.ok THEN TransferOk(d1, resp) ELSE TransferFailed(d1)
        IN  [raised |-> FALSE,
             d |-> [d2 EXCEPT !.file_path = file_path],
             cache |-> cf.cache, read |-> cf.read,
             can_fetch |-> IF cf.ret THEN "allow" ELSE "deny",
             transfer |-> IF resp.ok THEN "ok" ELSE "failed"]

-----------------------------------------------------------------------------
(* handlers.ContentHandler *)

\* handler.metadata.get(key) gives None (0 here) for a key that is not there;
\* a value that is there is written as the id of the record it was read from.
EmptyMetadata ==
    [language |-> 0, document_page_count |-> 0, author |-> 0, creation_date |-> 0]

\* ContentHandler.__init__
NewHandler(dest_folder) ==
    [dest_folder     |-> dest_folder,
     download_status |-> "success",
     error_message   |-> "",
     path            |-> EmptyPath,
     metadata        |-> EmptyMetadata]

\* self.metadata = {...} in PDFHandler, DocXHandler, XLSXHandler, PageHandler
MetadataOf(key, k) ==
    CASE key \in {"pdf", "docx"} ->
           [language |-> k, document_page_count |-> k, author |-> k, creation_date |-> k]
      [] key = "xlsx" ->
           [language |-> k, document_page_count |-> 0, author |-> k, creation_date |-> k]
      [] OTHER ->
           [language |-> k, document_page_count |-> 0, author |-> 0, creation_date |-> 0]

\* What _handle can do on a raw file: write the text and set the metadata, or
\* raise (corrupt file, no text for language detection).
Extractions == {"ok", "failed"}

\* The text written over the raw file instead of next to it.
DestFilePath_InPlace(h, file_path) == file_path

\* dest_folder / (file_path.split("/")[-1].split(".")[0] + ".txt")
DestFilePath(h, file_path) ==
    [folder |-> h.dest_folder, stem |-> file_path.stem, ext |-> ".txt"]

\* ContentHandler.handle(file_path): the handler after the call and whether
\* the call raised.
Handle(h, key, file_path, mk, ex) ==
    IF mk # "ok" THEN [raised |-> TRUE, h |-> h]
    ELSE
    LET h1 == IF ex = "ok"
              THEN [h EXCEPT !.metadata = MetadataOf(key, file_path.stem)]
              ELSE [h EXCEPT !.download_status = "failed_processing",
                             !.error_message = "processing error"]
    IN  [raised |-> FALSE, h |-> [h1 EXCEPT !.path = DestFilePath(h, file_path)]]

-----------------------------------------------------------------------------
(* main.download_files, main.handle_files, main.generate_csv_report *)

DownloaderKeys == {"document", "page"}

HandlerKeys == {"pdf", "docx", "xlsx", "html"}

\* Every extension taken for pdf.
ExtType_AllPdf(file_path) == "pdf"

\* url.raw_file_path.split("/")[-1].split(".")[-1]
ExtType(file_path) ==
    CASE file_path.ext = ".html" -> "html"
      [] file_path.ext = ".pdf"  -> "pdf"
      [] file_path.ext = ".docx" -> "docx"
      [] file_path.ext = ".xlsx" -> "xlsx"
      [] file_path.ext = ".bin"  -> "bin"
      [] OTHER                   -> ""

\* The branch taken without assigning the status.
MarkUnclassified_StatusKept(rec) == rec

\* The unclassified record given its source URL as final URL.
MarkUnclassified_FinalUrlFromSource(rec) ==
    [rec EXCEPT !.download_status = "failed_download",
                !.final_url = rec.source_url]

\* download_files: the branch for a content type that has no downloader.
MarkUnclassified(rec) == [rec EXCEPT !.download_status = "failed_download"]

NoTrace ==
    [classified |-> "none", read |-> "none", can_fetch |-> "none",
     transfer |-> "none", fetch_status |-> "none", handle |-> "none",
     escaped |-> "none"]

NoReport == [written |-> FALSE, rows |-> << >>]

\* No function is being applied on its own.
NoCall == [fn |-> "none"]

InputLists == UNION {[1..n -> Urls] : n \in 0..MaxUrls}

Init ==
    /\ \E input \in InputLists :
          urls = [k \in 1..Len(input) |-> URLMetadata(k, input[k])]
    /\ downloaders = [kind \in DownloaderKeys |->
                        NewDownloader(IF kind = "document" THEN DOCUMENT_RAW_FOLDER
                                      ELSE PAGE_RAW_FOLDER)]
    /\ handlers = [key \in HandlerKeys |->
                     NewHandler(IF key = "html" THEN PAGE_PROCESSED_FOLDER
                                ELSE DOCUMENT_PROCESSED_FOLDER)]
    /\ robots_cache = [o \in Origins |-> NoKey]
    /\ phase = "download"
    /\ idx = 1
    /\ trace = [k \in 1..Len(urls) |-> NoTrace]
    /\ reads = [o \in Origins |-> 0]
    /\ report = NoReport
    /\ threads = << >>
    /\ call = NoCall

\* An exception leaves download_files or handle_files: __main__ ends with a
\* traceback.
Crash ==
    /\ phase' = "crashed"
    /\ UNCHANGED <<idx, report, handlers, threads, call>>

\* One iteration of the for-loop of download_files, for record idx.
DownloadStep ==
    /\ phase = "download"
    /\ idx <= Len(urls)
    /\ \E probe \in Probes, mk \in Mkdirs, out \in ReadOutcomes :
       \E resp \in Responses(urls[idx].source_url) :
         LET url == urls[idx]
             ct  == GetContentType(url.source_url, probe)
         IN  IF ct.raised
             THEN /\ Crash
                  /\ trace' = [trace EXCEPT ![idx].escaped = "get_content_type"]
                  /\ UNCHANGED <<urls, downloaders, robots_cache, reads>>
             ELSE IF ct.kind \notin DownloaderKeys
             THEN /\ urls' = [urls EXCEPT ![idx] = MarkUnclassified(url)]
                  /\ trace' = [trace EXCEPT ![idx].classified = "unknown",
                                            ![idx].fetch_status = "failed_download"]
                  /\ idx' = idx + 1
                  /\ UNCHANGED <<downloaders, robots_cache, reads, phase, report,
                                 handlers, threads, call>>
             ELSE
             LET file_name == [stem |-> url.id, ext |-> ct.ext]
                 r  == Download(downloaders[ct.kind], robots_cache, url.source_url,
                                file_name, mk, out, resp)
                 u1 == [url EXCEPT !.content_type_detected = ct.kind]
                 u2 == SetRawFilePath(
                         [u1 EXCEPT !.final_url = r.d.url,
                                    !.download_status = r.d.download_status,
                                    !.error_message = r.d.error_message],
                         r.d.file_path)
                 u3 == [u2 EXCEPT !.file_size_bytes = r.d.file_size_bytes]
             IN  /\ downloaders' = [downloaders EXCEPT ![ct.kind] = r.d]
                 /\ robots_cache' = r.cache
                 /\ reads' = IF r.read # "none"
                             THEN [reads EXCEPT ![Sitemap(url.source_url)] = @ + 1]
                             ELSE reads
                 /\ IF r.raised
                    THEN /\ urls' = [urls EXCEPT ![idx] = u1]
                         /\ trace' = [trace EXCEPT ![idx].classified = ct.kind,
                                                   ![idx].read = r.read,
                                                   ![idx].can_fetch = r.can_fetch,
                                                   ![idx].escaped = "download"]
                         /\ Crash
                    ELSE /\ urls' = [urls EXCEPT ![idx] = u3]
                         /\ trace' = [trace EXCEPT
                                        ![idx].classified = ct.kind,
                                        ![idx].read = r.read,
                                        ![idx].can_fetch = r.can_fetch,
                                        ![idx].transfer = r.transfer,
                                        ![idx].fetch_status = r.d.download_status]
                         /\ idx' = idx + 1
                         /\ UNCHANGED <<phase, report, handlers, threads, call>>

\* handle_files started while download_files is still in its loop.
DownloadDone_Early ==
    /\ phase = "download"
    /\ phase' = "handle"
    /\ idx' = 1
    /\ UNCHANGED <<urls, downloaders, handlers, robots_cache, trace, reads,
                   report, threads, call>>

\* download_files returns, __main__ calls handle_files.
DownloadDone ==
    /\ phase = "download"
    /\ idx > Len(urls)
    /\ phase' = "handle"
    /\ idx' = 1
    /\ UNCHANGED <<urls, downloaders, handlers, robots_cache, trace, reads,
                   report, threads, call>>

\* The page count of the handler written on every handled record, the key
\* missing from the handler's metadata replaced by the record's id.
CopyMetadata_PageCountAlways(u, ext_type, h) ==
    [u EXCEPT !.document_page_count = u.id]

\* handle_files: the metadata fields copied from the handler by extension
CopyMetadata(u, ext_type, h) ==
    IF ext_type \in {"pdf", "docx"}
    THEN [u EXCEPT
            !.document_page_count = h.metadata.document_page_count,
            !.metadata_author = h.metadata.author,
            !.metadata_creation_date = h.metadata.creation_date]
    ELSE IF ext_type = "xlsx"
    THEN [u EXCEPT
            !.metadata_author = h.metadata.author,
            !.metadata_creation_date = h.metadata.creation_date]
    ELSE u

\* Every record goes on to the extension lookup.
SkipsHandling_Never(url) == FALSE

\* handle_files: `if url.download_status == "failed_download": continue`
SkipsHandling(url) == url.download_status = "failed_download"

\* One iteration of the for-loop of handle_files, for record idx.
HandleStep ==
    /\ phase = "handle"
    /\ idx <= Len(urls)
    /\ UNCHANGED <<downloaders, robots_cache, reads>>
    /\ LET url == urls[idx]
           ext_type == ExtType(url.raw_file_path)
           Continue == /\ idx' = idx + 1
                       /\ UNCHANGED <<phase, report, threads, call>>
       IN  IF SkipsHandling(url)
           THEN /\ Continue
                /\ UNCHANGED <<urls, handlers, trace>>
           ELSE IF ext_type \notin HandlerKeys
           THEN /\ urls' = [urls EXCEPT ![idx].download_status = "failed_processing"]
                /\ Continue
                /\ UNCHANGED <<handlers, trace>>
           ELSE \E mk \in Mkdirs, ex \in Extractions :
                LET r  == Handle(handlers[ext_type], ext_type, url.raw_file_path, mk, ex)
                    h  == r.h
                    u1 == [url EXCEPT
                             !.download_status = h.download_status,
                             !.error_message = h.error_message,
                             !.processed_file_path = h.path,
                             !.detected_language = h.metadata.language]
                    u2 == CopyMetadata(u1, ext_type, h)
                IN  IF r.raised
                    THEN /\ Crash
                         /\ trace' = [trace EXCEPT ![idx].escaped = "handle"]
                         /\ UNCHANGED urls
                    ELSE /\ handlers' = [handlers EXCEPT ![ext_type] = h]
                         /\ urls' = [urls EXCEPT ![idx] = u2]
                         /\ trace' = [trace EXCEPT ![idx].handle = ex]
                         /\ Continue

\* handle_files returns, __main__ calls generate_csv_report.
HandleDone ==
    /\ phase = "handle"
    /\ idx > Len(urls)
    /\ phase' = "report"
    /\ UNCHANGED <<urls, downloaders, handlers, robots_cache, trace, reads,
                   report, idx, threads, call>>

\* A report file is written although the list is empty.
ReportOf_EmptyFile(us) == [written |-> TRUE, rows |-> us]

\* generate_csv_report(urls, file_path): the file it writes and the rows under
\* its header, or NoReport when it returns before open().
ReportOf(us) ==
    IF Len(us) = 0 THEN NoReport ELSE [written |-> TRUE, rows |-> us]

\* generate_csv_report: nothing for an empty list, else one row per record.
GenerateCsvReport ==
    /\ phase = "report"
    /\ report' = ReportOf(urls)
    /\ phase' = "done"
    /\ UNCHANGED <<urls, downloaders, handlers, robots_cache, trace, reads,
                   idx, threads, call>>

Next ==
    \/ DownloadStep
    \/ DownloadDone
    \/ HandleStep
    \/ HandleDone
    \/ GenerateCsvReport

Spec == Init /\ [][Next]_vars

-----------------------------------------------------------------------------
(* can_fetch entered by several callers at once.  __main__ itself calls it   *)
(* from one thread; this specification runs the statements of can_fetch as   *)
(* separate steps of each caller, against the one module-level cache.        *)

NewThread(u) == [pc |-> "lookup", url |-> u, robot_parser |-> None, result |-> "none"]

InitConc ==
    /\ threads \in [1..MaxThreads -> {NewThread(u) : u \in Urls}]
    /\ robots_cache = [o \in Origins |-> NoKey]
    /\ reads = [o \in Origins |-> 0]
    /\ urls = << >>
    /\ downloaders = [kind \in DownloaderKeys |->
                        NewDownloader(IF kind = "document" THEN DOCUMENT_RAW_FOLDER
                                      ELSE PAGE_RAW_FOLDER)]
    /\ handlers = [key \in HandlerKeys |->
                     NewHandler(IF key = "html" THEN PAGE_PROCESSED_FOLDER
                                ELSE DOCUMENT_PROCESSED_FOLDER)]
    /\ phase = "can_fetch"
    /\ idx = 1
    /\ trace = << >>
    /\ report = NoReport
    /\ call = NoCall

\* robot_parser = _robots_cache.get(sitemap); if not robot_parser:
CfLookup(t) ==
    /\ threads[t].pc = "lookup"
    /\ LET rp == CacheGet(robots_cache, Sitemap(threads[t].url))
       IN  threads' = [threads EXCEPT ![t].robot_parser = rp,
                                      ![t].pc = IF NeedsRead(rp) THEN "read" ELSE "return"]
    /\ UNCHANGED <<robots_cache, reads, pipelineVars>>

\* robot_parser = RobotFileParser(); try: robot_parser.read() except URLError
CfRead(t) ==
    /\ threads[t].pc = "read"
    /\ \E out \in ReadOutcomes :
         threads' = [threads EXCEPT
                       ![t].robot_parser = IF Raises(out) THEN None ELSE AfterRead(out),
                       ![t].pc = IF Raises(out) THEN "raised" ELSE "store"]
    /\ reads' = [reads EXCEPT ![Sitemap(threads[t].url)] = @ + 1]
    /\ UNCHANGED <<robots_cache, pipelineVars>>

\* _robots_cache[sitemap] = robot_parser
CfStore(t) ==
    /\ threads[t].pc = "store"
    /\ robots_cache' = [robots_cache EXCEPT
                          ![Sitemap(threads[t].url)] = threads[t].robot_parser]
    /\ threads' = [threads EXCEPT ![t].pc = "return"]
    /\ UNCHANGED <<reads, pipelineVars>>

\* if robot_parser is None: return True / return robot_parser.can_fetch(...)
CfReturn(t) ==
    /\ threads[t].pc = "return"
    /\ threads' = [threads EXCEPT
                     ![t].result = IF Decision(threads[t].robot_parser)
                                   THEN "allow" ELSE "deny",
                     ![t].pc = "done"]
    /\ UNCHANGED <<robots_cache, reads, pipelineVars>>

NextConc ==
    \E t \in 1..MaxThreads :
        \/ CfLookup(t)
        \/ CfRead(t)
        \/ CfStore(t)
        \/ CfReturn(t)

SpecConc == InitConc /\ [][NextConc]_vars

-----------------------------------------------------------------------------
(* Properties *)

Records == DOMAIN urls

Finished == phase = "done"

FailureStatuses == {"failed_download", "failed_processing"}

TerminalStatuses == {"skipped_robots", "failed_download", "failed_processing"}

IsSet(p) == p # NonePath /\ p # EmptyPath

\* C1: a record whose fetch stage gave skipped_robots never has
\* ContentHandler.handle invoked for it.
C1_NoExtractorAfterSkippedRobots ==
    \A k \in Records :
        trace[k].fetch_status = "skipped_robots" => trace[k].handle = "none"

\* C2: when can_fetch answers "disallowed" inside download(), _download is not
\* performed for that call and the outcome is skipped_robots.
C2_DisallowShortCircuits ==
    \A k \in Records :
        trace[k].can_fetch = "deny" =>
            /\ trace[k].transfer = "none"
            /\ trace[k].fetch_status = "skipped_robots"

\* C3: once a record's download_status is skipped_robots, failed_download or
\* failed_processing, no later step changes it.
C3_TerminalStatusesStay ==
    [][\A k \in Records :
          urls[k].download_status \in TerminalStatuses =>
              urls'[k].download_status = urls[k].download_status]_vars

\* C4: every record's status is always one of the four statuses, and a record
\* no stage has touched yet has status success and every optional field unset.
C4_StatusDomainAndFreshRecord ==
    \A k \in Records :
        /\ urls[k].download_status \in
              {"success", "failed_download", "skipped_robots", "failed_processing"}
        /\ trace[k] = NoTrace =>
              /\ urls[k].download_status = "success"
              /\ urls[k].final_url = NoneUrl
              /\ urls[k].download_timestamp = None
              /\ urls[k].error_message = None
              /\ urls[k].content_type_detected = None
              /\ urls[k].raw_file_path = NonePath
              /\ urls[k].processed_file_path = NonePath
              /\ urls[k].file_size_bytes = None
              /\ urls[k].document_page_count = 0
              /\ urls[k].detected_language = 0
              /\ urls[k].metadata_author = 0
              /\ urls[k].metadata_creation_date = 0

\* C4 witness: during handle_files one record already is failed_processing,
\* another still skipped_robots, and a third state of affairs, an untouched
\* record, is covered by the initial states.
C4_Witness ==
    /\ phase = "handle"
    /\ \E j, k \in Records :
          /\ urls[j].download_status = "failed_processing"
          /\ urls[k].download_status = "skipped_robots"

\* C5: at the end of the run error_message is non-empty exactly for the
\* records whose status is failed_download or failed_processing.
C5_ErrorMessageIffFailure ==
    Finished =>
        \A k \in Records :
            (urls[k].error_message \notin {None, ""})
                <=> (urls[k].download_status \in FailureStatuses)

\* C6: at the end of the run processed_file_path is set only on records whose
\* status is success; a fetched record whose extraction failed ends
\* failed_processing with raw_file_path set and processed_file_path empty.
C6_ProcessedPathOnlyOnSuccess ==
    Finished =>
        \A k \in Records :
            /\ IsSet(urls[k].processed_file_path) => urls[k].download_status = "success"
            /\ (trace[k].transfer = "ok" /\ trace[k].handle = "failed") =>
                  /\ urls[k].download_status = "failed_processing"
                  /\ IsSet(urls[k].raw_file_path)
                  /\ ~IsSet(urls[k].processed_file_path)

\* C7: at the end of the run every record with status success has
\* processed_file_path set, different from raw_file_path, inside a
\* processed-artifact folder and not inside a raw-artifact folder.
C7_SuccessHasDisjointProcessedPath ==
    Finished =>
        \A k \in Records :
            urls[k].download_status = "success" =>
                /\ IsSet(urls[k].processed_file_path)
                /\ urls[k].processed_file_path # urls[k].raw_file_path
                /\ urls[k].processed_file_path.folder \in
                      {DOCUMENT_PROCESSED_FOLDER, PAGE_PROCESSED_FOLDER}
                /\ urls[k].processed_file_path.folder \notin
                      {DOCUMENT_RAW_FOLDER, PAGE_RAW_FOLDER}

\* C7 witness: a finished run with a record that was fetched, extracted and
\* ended success.
C7_Witness ==
    /\ Finished
    /\ \E k \in Records :
          /\ urls[k].download_status = "success"
          /\ trace[k].transfer = "ok"
          /\ trace[k].handle = "ok"

\* C8: whatever the interleaving of concurrent can_fetch calls, robots.txt of
\* one origin is read at most once.
C8_AtMostOneReadPerOrigin ==
    \A o \in Origins : reads[o] <= 1

\* C9: in a sequential run, after the first can_fetch call for an origin has
\* completed, no later call reads that origin's robots.txt again, whether the
\* first read gave a policy or failed.
C9_NoReadAfterFirstCall ==
    [][\A o \in Origins : reads[o] >= 1 => reads'[o] = reads[o]]_vars

\* C10: when reading robots.txt fails (any error), can_fetch returns True and
\* raises nothing, so the run is not aborted and the record is not failed by it.
C10_RobotsErrorMeansAllow ==
    \A k \in Records :
        trace[k].read \in {"URLError", "OtherError"} =>
            /\ trace[k].can_fetch = "allow"
            /\ phase # "crashed"

\* C11: a record whose transfer failed (transport error, timeout) has status
\* failed_download, a non-empty error_message and no raw_file_path.
C11_FailedFetchHasNoRawPath ==
    \A k \in Records :
        trace[k].transfer = "failed" =>
            /\ urls[k].download_status = "failed_download"
            /\ urls[k].error_message \notin {None, ""}
            /\ ~IsSet(urls[k].raw_file_path)

\* C12: a record whose classification is unknown becomes failed_download, and
\* neither can_fetch nor a downloader's download (nor, later, a handler) is
\* invoked for it.
C12_UnknownClassificationStops ==
    \A k \in Records :
        trace[k].classified = "unknown" =>
            /\ urls[k].download_status = "failed_download"
            /\ trace[k].read = "none"
            /\ trace[k].can_fetch = "none"
            /\ trace[k].transfer = "none"
            /\ trace[k].handle = "none"
            /\ urls[k].final_url = NoneUrl
            /\ urls[k].raw_file_path = NonePath

\* C12 witness: a finished run that had a record of unknown classification
\* after a record that was downloaded.
C12_Witness ==
    /\ Finished
    /\ \E j, k \in Records :
          /\ j < k
          /\ trace[j].transfer = "ok"
          /\ trace[k].classified = "unknown"

\* C13: a record allowed by policy whose own transfer succeeds has status
\* success after the fetch stage, whatever happened to earlier records.
C13_OwnFetchDecidesStatus ==
    \A k \in Records :
        (trace[k].can_fetch = "allow" /\ trace[k].transfer = "ok") =>
            trace[k].fetch_status = "success"

\* C14: a record fetched successfully whose own extraction succeeds ends with
\* status success and processed_file_path recorded, whatever happened to
\* earlier records of the same format.
C14_OwnExtractionDecidesStatus ==
    \A k \in Records :
        (trace[k].fetch_status = "success" /\ trace[k].handle = "ok") =>
            /\ urls[k].download_status = "success"
            /\ IsSet(urls[k].processed_file_path)

\* C15: no exception raised inside download() or handle() escapes to the
\* pipeline, whichever step inside them fails.
C15_NoExceptionEscapes ==
    \A k \in Records : trace[k].escaped \notin {"download", "handle"}

-----------------------------------------------------------------------------
(* get_content_type applied to one URL and one probe response *)

\* The pipeline's variables while a single function is applied on its own.
PipelineAtRest ==
    /\ urls = << >>
    /\ downloaders = [kind \in DownloaderKeys |->
                        NewDownloader(IF kind = "document" THEN DOCUMENT_RAW_FOLDER
                                      ELSE PAGE_RAW_FOLDER)]
    /\ handlers = [key \in HandlerKeys |->
                     NewHandler(IF key = "html" THEN PAGE_PROCESSED_FOLDER
                                ELSE DOCUMENT_PROCESSED_FOLDER)]
    /\ robots_cache = [o \in Origins |-> NoKey]
    /\ reads = [o \in Origins |-> 0]
    /\ phase = "call"
    /\ idx = 1
    /\ trace = << >>
    /\ report = NoReport
    /\ threads = << >>

restVars == <<urls, downloaders, handlers, robots_cache, reads, phase, idx,
              trace, report, threads>>

Suffixes == {"", ".pdf", ".html", ".docx", ".xlsx", ".txt", ".zip", ".qqq"}

ClassifyUrls == {[origin |-> "http://a", path |-> "/x", suffix |-> s] : s \in Suffixes}

\* Probe responses: those of Probes, an empty header, headers with parameters
\* and upper case, and further media types.
ClassifyProbes ==
    Probes \cup {"", "Text/HTML; charset=UTF-8", "application/pdf ;q=1",
                 DocxType, XlsxType, "text/plain"}

InitClassify ==
    /\ PipelineAtRest
    /\ call \in {[fn |-> "get_content_type", url |-> u, probe |-> p,
                   done |-> FALSE, result |-> Unknown,
                   repeated |-> FALSE, second |-> Unknown] :
                     u \in ClassifyUrls, p \in ClassifyProbes}

\* get_content_type(url)
GetContentTypeCall ==
    /\ call.fn = "get_content_type"
    /\ ~call.done
    /\ call' = [call EXCEPT !.done = TRUE,
                            !.result = GetContentType(call.url, call.probe)]
    /\ UNCHANGED restVars

\* get_content_type(url) called once more, the probe answering as before.
GetContentTypeAgain ==
    /\ call.fn = "get_content_type"
    /\ call.done
    /\ ~call.repeated
    /\ call' = [call EXCEPT !.repeated = TRUE,
                            !.second = GetContentType(call.url, call.probe)]
    /\ UNCHANGED restVars

NextClassify == GetContentTypeCall \/ GetContentTypeAgain

SpecClassify == InitClassify /\ [][NextClassify]_vars

\* C16: get_content_type never raises and returns (page, .html) when the
\* resolved extension is .html, (document, ext) for another resolved
\* extension, and unknown when the probe fails or no extension is resolved
\* from the Content-Type header or, without header, from the URL's suffix.
C16_ClassifierTotal ==
    call.done =>
        LET media == IF call.probe = "RequestException" THEN None
                     ELSE IF call.probe \in {None, ""} THEN GuessType(call.url)
                     ELSE NormalizeHeader(call.probe)
            ext   == IF media = None THEN None ELSE GuessExtension(media)
        IN  /\ ~call.result.raised
            /\ ext = None    => call.result = Unknown
            /\ ext = ".html" => (call.result.kind = "page" /\ call.result.ext = ".html")
            /\ ext \notin {None, ".html"} =>
                  (call.result.kind = "document" /\ call.result.ext = ext)

-----------------------------------------------------------------------------
(* clear_urls_of_garbage applied to a list of source URLs.  A URL is the     *)
(* record urlparse makes of it; its query is the sequence of its "&"         *)
(* separated fields, each a key (a sequence of name parts) and a raw value   *)
(* (None: the field has no "=").                                             *)

MaxParams == 2

MaxPasses == 2

Schemes == {"https", "HTTPS"}

QueryKeys == {<<"utm_", "source">>, <<"UTM_", "source">>, <<"g", "clid">>,
              <<"cache_", "v">>, <<"x", "_debug">>, <<"id">>}

RawValues == {None, "", "7", "a%20b", "a+b"}

RawParams == [key : QueryKeys, value : RawValues]

RawQueries == UNION {[1..n -> RawParams] : n \in 0..MaxParams}

NormalizeUrls == [scheme : Schemes, netloc : {"example.com"},
                  path : {"/report.pdf"}, query : RawQueries]

\* urlparse(url): the scheme is lower-cased, the rest is split as it is.
UrlParse(u) == [u EXCEPT !.scheme = IF @ = "HTTPS" THEN "https" ELSE @]

\* urllib.parse.unquote_plus(value), as parse_qsl applies it
UnquotePlus(v) ==
    CASE v = "a%20b"     -> "a b"
      [] v = "a+b"       -> "a b"
      [] v = "a%2Bb"     -> "a+b"
      [] v = "a%2520b"   -> "a%20b"
      [] v = "a%252Bb"   -> "a%2Bb"
      [] OTHER           -> v

\* urllib.parse.quote_plus(value), as urlencode applies it
QuotePlus(v) ==
    CASE v = "a b"       -> "a+b"
      [] v = "a+b"       -> "a%2Bb"
      [] v = "a%20b"     -> "a%2520b"
      [] v = "a%2Bb"     -> "a%252Bb"
      [] v = "a%2520b"   -> "a%252520b"
      [] v = "a%252Bb"   -> "a%25252Bb"
      [] OTHER           -> v

IsBlank(p) == p.value \in {None, ""}

ParseQsl_NoUnquote(q) == SelectSeq(q, LAMBDA p : ~IsBlank(p))

\* parse_qsl(query): keep_blank_values is False, so a field without "=" or
\* with nothing after it is left out; the values are decoded.
ParseQsl(q) ==
    LET kept == SelectSeq(q, LAMBDA p : ~IsBlank(p))
    IN  [i \in 1..Len(kept) |->
            [key |-> kept[i].key, value |-> UnquotePlus(kept[i].value)]]

\* pattern.search(key) for (^utm_|clid$|^cache_|_debug$)
PatternSearch(key) ==
    \/ Head(key) \in {"utm_", "cache_"}
    \/ key[Len(key)] \in {"clid", "_debug"}

\* urlencode(query_params, doseq=True)
UrlEncode(params) ==
    [i \in 1..Len(params) |->
        [key |-> params[i].key, value |-> QuotePlus(params[i].value)]]

\* The body of the loop: one source_url rewritten.
ClearUrl(u) ==
    LET parsed_url   == UrlParse(u)
        query_params == SelectSeq(ParseQsl(parsed_url.query),
                                  LAMBDA p : ~PatternSearch(p.key))
    IN  [parsed_url EXCEPT !.query = UrlEncode(query_params)]

NormalizeInputs == {<< >>} \cup {<<u>> : u \in NormalizeUrls}

InitNormalize ==
    /\ PipelineAtRest
    /\ call \in {[fn |-> "clear_urls_of_garbage", input |-> us, prev |-> us,
                   urls |-> us, passes |-> 0] : us \in NormalizeInputs}

\* clear_urls_of_garbage(urls)
ClearUrlsOfGarbage ==
    /\ call.fn = "clear_urls_of_garbage"
    /\ call.passes < MaxPasses
    /\ call' = [call EXCEPT
                  !.prev   = call.urls,
                  !.urls   = [i \in 1..Len(call.urls) |-> ClearUrl(call.urls[i])],
                  !.passes = @ + 1]
    /\ UNCHANGED restVars

NextNormalize == ClearUrlsOfGarbage

SpecNormalize == InitNormalize /\ [][NextNormalize]_vars


\* The fields of a query as (key, decoded value) pairs, a field with an empty
\* value or without "=" counted with the value "".
DecodedFields(q) ==
    [i \in 1..Len(q) |->
        [key |-> q[i].key,
         value |-> IF IsBlank(q[i]) THEN "" ELSE UnquotePlus(q[i].value)]]

\* C17: one pass of clear_urls_of_garbage leaves scheme, host and path as
\* they were and keeps, in their order, exactly the query parameters whose key
\* has none of the prefixes utm_, cache_ and none of the suffixes clid,
\* _debug, parameters with an empty value included.
C17_RemovesExactlyTrackingParams ==
    (call.fn = "clear_urls_of_garbage" /\ call.passes = 1) =>
        \A i \in 1..Len(call.input) :
            LET orig == call.input[i]
                new  == call.urls[i]
            IN  /\ new.scheme = orig.scheme
                /\ new.netloc = orig.netloc
                /\ new.path = orig.path
                /\ DecodedFields(new.query) =
                       SelectSeq(DecodedFields(orig.query),
                                 LAMBDA p : ~PatternSearch(p.key))

\* C18: a second pass of clear_urls_of_garbage over records that went through
\* it once leaves every source_url as the first pass made it.
C18_NormalizationIdempotent ==
    (call.fn = "clear_urls_of_garbage" /\ call.passes >= 2) =>
        call.urls = call.prev

\* Two passes over a URL whose first pass removed a tracking parameter and
\* re-encoded the value of the parameter it kept.
C18_Witness ==
    /\ call.fn = "clear_urls_of_garbage"
    /\ call.passes = 2
    /\ Len(call.input) = 1
    /\ Len(call.input[1].query) = 2
    /\ \E i \in 1..2 : /\ call.input[1].query[i].value = "a%20b"
                        /\ ~PatternSearch(call.input[1].query[i].key)
    /\ \E i \in 1..2 : /\ PatternSearch(call.input[1].query[i].key)
                        /\ ~IsBlank(call.input[1].query[i])
    /\ Len(call.urls[1].query) = 1
    /\ call.urls[1].query[1].value = "a+b"


\* What download() leaves in a downloader nothing has used before, given the
\* policy decision and the transfer outcome of record k alone.
SoloFetch(k) ==
    LET d1 == AfterRobots(NewDownloader(PAGE_RAW_FOLDER), trace[k].can_fetch = "allow")
    IN  IF trace[k].transfer = "ok" THEN d1 ELSE TransferFailed(d1)

\* What handle() leaves in a handler nothing has used before, given the
\* extraction outcome of record k alone.
SoloHandle(k) ==
    LET key == ExtType(urls[k].raw_file_path)
    IN  Handle(NewHandler(handlers[key].dest_folder), key, urls[k].raw_file_path,
               "ok", trace[k].handle).h

\* C19: the fields of a record are those a run without the records before it
\* gives: the status after download() is the one a fresh downloader gives for
\* the record's own policy decision and transfer outcome, and the status,
\* error message, processed path and language after handle() are the ones a
\* fresh handler gives for the record's own extraction outcome.
C19_RecordsIndependent ==
    \A k \in Records :
        /\ trace[k].transfer # "none" =>
              trace[k].fetch_status = SoloFetch(k).download_status
        /\ (Finished /\ trace[k].handle # "none") =>
              /\ urls[k].download_status = SoloHandle(k).download_status
              /\ urls[k].error_message = SoloHandle(k).error_message
              /\ urls[k].processed_file_path = SoloHandle(k).path
              /\ urls[k].detected_language = SoloHandle(k).metadata.language


\* C20: for an empty input list generate_csv_report writes no file; for a
\* non-empty list the file has one row per record, in the order of the list.
C20_ReportRowsMatchInput ==
    Finished =>
        IF Len(urls) = 0
        THEN ~report.written /\ report.rows = << >>
        ELSE /\ report.written
             /\ Len(report.rows) = Len(urls)
             /\ \A k \in Records : report.rows[k] = urls[k]

\* A finished run over two records that ended with different statuses.
C20_Witness ==
    /\ Finished
    /\ Len(urls) = 2
    /\ report.written
    /\ Len(report.rows) = 2
    /\ report.rows[1].id = 1
    /\ report.rows[2].id = 2
    /\ urls[1].download_status # urls[2].download_status


HandleInvoked(k) == trace[k].handle # "none" \/ trace[k].escaped = "handle"

\* download() has been invoked for record k (it returned or it raised).
DownloadInvoked(k) ==
    \/ trace[k].can_fetch # "none"
    \/ trace[k].transfer # "none"
    \/ trace[k].escaped = "download"

\* C22: download() is invoked for a record only once it is classified as page
\* or document; while download_files runs no extractor has been invoked; once
\* handle_files runs every record has been through classification and its
\* fetch stage, and an extractor is invoked only for a record whose download()
\* call has returned.
C22_StagesOrdered ==
    /\ \A k \in Records :
          /\ DownloadInvoked(k) => trace[k].classified \in DownloaderKeys
          /\ HandleInvoked(k) =>
                /\ trace[k].classified \in DownloaderKeys
                /\ trace[k].transfer # "none"
                /\ trace[k].fetch_status # "none"
    /\ phase = "download" => \A k \in Records : ~HandleInvoked(k)
    /\ phase \in {"handle", "report", "done"} =>
          \A k \in Records : trace[k].fetch_status # "none"

\* Two records fetched one after the other and the second one then extracted.
C22_Witness ==
    /\ Len(urls) = 2
    /\ DownloadInvoked(1)
    /\ DownloadInvoked(2)
    /\ trace[2].handle = "ok"


\* No metadata field of record k is set.
NoMetadata(k) ==
    /\ urls[k].detected_language = 0
    /\ urls[k].document_page_count = 0
    /\ urls[k].metadata_author = 0
    /\ urls[k].metadata_creation_date = 0

\* C23: a record that left the fetch stage with failed_download (unknown
\* classification or failed transfer) never has an extractor invoked, and
\* keeps status failed_download, no processed path and no metadata.
C23_FailedDownloadUntouchedByHandle ==
    \A k \in Records :
        trace[k].fetch_status = "failed_download" =>
            /\ ~HandleInvoked(k)
            /\ urls[k].download_status = "failed_download"
            /\ urls[k].processed_file_path = NonePath
            /\ NoMetadata(k)

\* A finished run in which a page whose transfer failed was passed over and
\* a document after it was extracted.
C23_Witness ==
    /\ Finished
    /\ Len(urls) = 2
    /\ trace[1].transfer = "failed"
    /\ urls[1].raw_file_path.ext = ".html"
    /\ trace[2].handle = "ok"

\* C24: a record fetched with status success whose raw file has an extension
\* other than pdf, docx, xlsx, html ends failed_processing, with no extractor
\* invoked and no processed path.
C24_UnsupportedFormatFailsProcessing ==
    \A k \in Records :
        (/\ trace[k].fetch_status = "success"
         /\ urls[k].raw_file_path.ext \notin {".pdf", ".docx", ".xlsx", ".html"}
         /\ \/ phase \in {"report", "done"}
            \/ phase = "handle" /\ k < idx) =>
            /\ urls[k].download_status = "failed_processing"
            /\ ~HandleInvoked(k)
            /\ urls[k].processed_file_path = NonePath

\* A finished run with a record fetched as application/octet-stream.
C24_Witness ==
    /\ Finished
    /\ \E k \in Records :
          /\ trace[k].fetch_status = "success"
          /\ trace[k].transfer = "ok"
          /\ urls[k].raw_file_path.ext = ".bin"
          /\ urls[k].download_status = "failed_processing"


\* C25: once _robots_cache holds an entry for an origin (a parser or None) no
\* step changes it, and two can_fetch calls of one run for the same URL give
\* the same decision.
C25_CacheEntryImmutable ==
    [][/\ \A o \in Origins :
             robots_cache[o] # NoKey => robots_cache'[o] = robots_cache[o]
       /\ \A j, k \in Records :
             (/\ j < k
              /\ urls[j].source_url = urls[k].source_url
              /\ trace'[j].can_fetch \in {"allow", "deny"}
              /\ trace'[k].can_fetch \in {"allow", "deny"}) =>
                 trace'[k].can_fetch = trace'[j].can_fetch]_vars

-----------------------------------------------------------------------------
(* The pipeline over URLs of spreadsheets and word-processor documents, so   *)
(* that all four handlers are used.                                          *)

FormatUrls == {[origin |-> "http://a", path |-> "/s", suffix |-> ".xlsx"],
               [origin |-> "http://a", path |-> "/d", suffix |-> ".docx"]}

FormatLists == UNION {[1..n -> FormatUrls] : n \in 0..MaxUrls}

InitFormats ==
    /\ \E input \in FormatLists :
          urls = [k \in 1..Len(input) |-> URLMetadata(k, input[k])]
    /\ downloaders = [kind \in DownloaderKeys |->
                        NewDownloader(IF kind = "document" THEN DOCUMENT_RAW_FOLDER
                                      ELSE PAGE_RAW_FOLDER)]
    /\ handlers = [key \in HandlerKeys |->
                     NewHandler(IF key = "html" THEN PAGE_PROCESSED_FOLDER
                                ELSE DOCUMENT_PROCESSED_FOLDER)]
    /\ robots_cache = [o \in Origins |-> NoKey]
    /\ phase = "download"
    /\ idx = 1
    /\ trace = [k \in 1..Len(urls) |-> NoTrace]
    /\ reads = [o \in Origins |-> 0]
    /\ report = NoReport
    /\ threads = << >>
    /\ call = NoCall

SpecFormats == InitFormats /\ [][Next]_vars

\* C26: a record whose raw file is xlsx has no page count; one whose raw file
\* is html has no page count, author or creation date; a page count is set
\* only on pdf and docx records.
C26_MetadataMatchesFormat ==
    \A k \in Records :
        LET ext_type == ExtType(urls[k].raw_file_path)
        IN  /\ ext_type = "xlsx" => urls[k].document_page_count = 0
            /\ ext_type = "html" =>
                  /\ urls[k].document_page_count = 0
                  /\ urls[k].metadata_author = 0
                  /\ urls[k].metadata_creation_date = 0
            /\ urls[k].document_page_count # 0 => ext_type \in {"pdf", "docx"}

\* A finished run that extracted a spreadsheet (author set) and a page
\* (language set).
C26_Witness ==
    /\ Finished
    /\ \E j, k \in Records :
          /\ ExtType(urls[j].raw_file_path) = "xlsx"
          /\ trace[j].handle = "ok"
          /\ urls[j].metadata_author = j
          /\ ExtType(urls[k].raw_file_path) = "html"
          /\ trace[k].handle = "ok"
          /\ urls[k].detected_language = k

-----------------------------------------------------------------------------
(* One download() call on a fresh downloader, with the body of the response  *)
(* told apart from its Content-Length header.                                *)

\* Responses to requests.get: a failure, or a response with its effective
\* URL, its Content-Length header (None: absent, as with chunked transfer) and
\* the length of request.content (which differs from the header when the body
\* was sent compressed).
TransferResponses(u) ==
    {[ok |-> FALSE, url |-> u, content_length |-> None, body |-> "0"]} \cup
    [ok : {TRUE}, url : {u, [u EXCEPT !.path = "/moved"]},
     content_length : {None, "300", "1024"}, body : {"0", "300", "1024"}]

\* file.write(request.content): the number of bytes in the raw file
BytesWritten(resp) == resp.body

InitTransfer ==
    /\ PipelineAtRest
    /\ call \in {[fn |-> "download", kind |-> kind, url |-> u, resp |-> resp,
                   done |-> FALSE, download_status |-> "success",
                   final_url |-> NoneUrl, file_size_bytes |-> None,
                   written |-> "0"] :
                     kind \in DownloaderKeys, u \in Urls,
                     resp \in UNION {TransferResponses(v) : v \in Urls}}
    /\ call.resp \in TransferResponses(call.url)

\* downloader.download(url.source_url, file_name=...) on a downloader just
\* built, robots.txt allowing the URL, and the copy of its fields into the
\* record.
DownloadCall ==
    /\ call.fn = "download"
    /\ ~call.done
    /\ LET d == NewDownloader(IF call.kind = "document" THEN DOCUMENT_RAW_FOLDER
                              ELSE PAGE_RAW_FOLDER)
           r == Download(d, [o \in Origins |-> NoKey], call.url,
                         [stem |-> 1, ext |-> ".bin"], "ok", "allow", call.resp)
       IN  call' = [call EXCEPT
                      !.done = TRUE,
                      !.download_status = r.d.download_status,
                      !.final_url = r.d.url,
                      !.file_size_bytes = r.d.file_size_bytes,
                      !.written = IF call.resp.ok THEN BytesWritten(call.resp)
                                  ELSE "0"]
    /\ UNCHANGED restVars

NextTransfer == DownloadCall

SpecTransfer == InitTransfer /\ [][NextTransfer]_vars

\* C27: after a download that ended with success the record's file_size_bytes
\* is the number of bytes written to the raw file and its final_url is the
\* URL of the response after redirects.
C27_SizeAndFinalUrlOfResponse ==
    (call.fn = "download" /\ call.done /\ call.download_status = "success") =>
        /\ call.file_size_bytes = call.written
        /\ call.final_url = call.resp.url


\* C28: in every state a record's final_url is other than None only if
\* download() has been called for it and has returned; a record that stopped
\* at classification has final_url None.
C28_FinalUrlOnlyAfterFetchAttempt ==
    \A k \in Records :
        /\ urls[k].final_url # NoneUrl =>
              /\ trace[k].classified \in DownloaderKeys
              /\ trace[k].can_fetch \in {"allow", "deny"}
              /\ trace[k].transfer # "none"
        /\ trace[k].classified = "unknown" => urls[k].final_url = NoneUrl

\* A redirected record with its final URL set, followed by a record that
\* stopped at classification, in a finished run.
C28_Witness ==
    /\ Finished
    /\ Len(urls) = 2
    /\ urls[1].final_url = [urls[1].source_url EXCEPT !.path = "/moved"]
    /\ trace[2].classified = "unknown"
    /\ urls[2].final_url = NoneUrl

====
